---- MODULE Spec2Model ----
(***************************************************************************)
(* Model of MidiWriter (src/midi_writer.py): a document of tracks, each a  *)
(* list of (tick, event_bytes) pairs, the public mutators addTrack,        *)
(* setChannel, addBPM and addNote, and save, which sorts every track and   *)
(* renders the Standard MIDI File bytes.                                   *)
(*                                                                         *)
(* Bytes are integers 0..255; a bytes object is a sequence of them.        *)
(* Python integers are unbounded.  The only integer of the program that    *)
(* can leave the range of the checker's integers is the local "buffer" of  *)
(* encode_var_len, so it is kept as its base-256 digits, lowest digit      *)
(* first: (buffer << 8) | b puts b in front, buffer & 0xFF reads the       *)
(* first digit, buffer >>= 8 drops it.                                     *)
(***************************************************************************)
EXTENDS Integers, Sequences, FiniteSets, TLC

VARIABLES
    tracks,           \* self.tracks: sequence of Track.events lists
    channel_program,  \* self.channel_program: channel id -> program number
    file,             \* bytes written by the most recent successful save
    deltas,           \* per track, the delta_ticks values save computed last
    call,             \* the most recent public call and its arguments
    outcome,          \* how that call ended: "ok", "rejected", or an exception
    ret,              \* return value of addTrack (-1 stands for None)
    appended,         \* history: per track, the add_event calls in call order
    refTracks,        \* history: tracks built from the accepted calls only
    refProgram,       \* history: channel_program built from accepted calls only
    ncalls,           \* number of mutating calls made so far
    nrejected,        \* history: how many of them the validator rejected
    acceptedCalls,    \* history: the calls the validator did not reject
    vlqIn,            \* argument handed to encode_var_len
    vlqOut            \* bytes encode_var_len returned for vlqIn

vars == <<tracks, channel_program, file, deltas, call, outcome, ret,
          appended, refTracks, refProgram, ncalls, nrejected, acceptedCalls,
          vlqIn, vlqOut>>

docVars == <<tracks, channel_program, file, deltas, call, outcome, ret,
             appended, refTracks, refProgram, ncalls, nrejected,
             acceptedCalls>>

\* ------------------------------------------------------------------ bounds
MaxCalls == 3
VlqSmallMax == 300

\* ------------------------------------------------------- program constants
ticks_per_quarter == 480

\* -------------------------------------------------------- byte arithmetic
RECURSIVE Pow(_, _)
Pow(b, e) == IF e = 0 THEN 1 ELSE b * Pow(b, e - 1)

\* int.to_bytes(3, byteorder="big"), defined for 0 <= n < 2^24
to_bytes3(n) == << (n \div 65536) % 256, (n \div 256) % 256, n % 256 >>

\* n.to_bytes(3, ...) raises OverflowError outside 0 .. 2^24 - 1
to_bytes3_overflows(n) == n < 0 \/ n >= 16777216

\* struct.pack(">I", n)
pack_I(n) == << (n \div 16777216) % 256, (n \div 65536) % 256,
                (n \div 256) % 256, n % 256 >>

\* struct.pack(">h", n): signed 16-bit, two's complement, big-endian
pack_h(n) == << ((n % 65536) \div 256) % 256, n % 256 >>

\* struct.pack(">h", n) raises struct.error outside -32768 .. 32767
pack_h_fails(n) == n < -32768 \/ n > 32767

\* ---------------------------------------------------------- encode_var_len
\* variant: the first loop forgets "| 0x80"
RECURSIVE vlq_pack_nocont(_, _)
vlq_pack_nocont(buffer, value) ==
    IF value > 0
    THEN vlq_pack_nocont(<< value % 128 >> \o buffer, value \div 128)
    ELSE buffer

\* first loop: prepend 7-bit chunks with the continuation bit set
RECURSIVE vlq_pack(_, _)
vlq_pack(buffer, value) ==
    IF value > 0
    THEN vlq_pack(<< (value % 128) + 128 >> \o buffer, value \div 128)
    ELSE buffer

\* buffer & 0xFF on the digit list (an exhausted list is the integer 0)
low_byte(buffer) == IF buffer = << >> THEN 0 ELSE Head(buffer)

\* buffer >> 8 on the digit list
shift8(buffer) == IF buffer = << >> THEN << >> ELSE Tail(buffer)

\* second loop: extract the lowest byte until one has bit 0x80 clear
RECURSIVE vlq_unpack(_, _)
vlq_unpack(buffer, bytes_out) ==
    LET out == Append(bytes_out, low_byte(buffer))
    IN  IF low_byte(buffer) >= 128
        THEN vlq_unpack(shift8(buffer), out)
        ELSE out

\* variant: the first shift is by 8 bits instead of 7
encode_var_len_shift8(value) ==
    vlq_unpack(vlq_pack(<< value % 128 >>, value \div 256), << >>)

encode_var_len(value) ==
    vlq_unpack(vlq_pack(<< value % 128 >>, value \div 128), << >>)

\* ------------------------------------------------------------------ Track
Event(tick, event_bytes) == [tick |-> tick, bytes |-> event_bytes]

\* variant: an event is placed before the events that share its tick
RECURSIVE insert_before_equal(_, _)
insert_before_equal(sorted, ev) ==
    IF sorted = << >> THEN << ev >>
    ELSE IF sorted[Len(sorted)].tick < ev.tick THEN Append(sorted, ev)
    ELSE Append(insert_before_equal(SubSeq(sorted, 1, Len(sorted) - 1), ev),
                sorted[Len(sorted)])

\* Track.sort_events: list.sort(key=tick) is a stable sort.  Insertion from
\* the left, each event placed after every event whose tick is <= its own.
RECURSIVE insert_stable(_, _)
insert_stable(sorted, ev) ==
    IF sorted = << >> THEN << ev >>
    ELSE IF sorted[Len(sorted)].tick <= ev.tick THEN Append(sorted, ev)
    ELSE Append(insert_stable(SubSeq(sorted, 1, Len(sorted) - 1), ev),
                sorted[Len(sorted)])

RECURSIVE sort_from(_, _)
sort_from(events, sorted) ==
    IF events = << >> THEN sorted
    ELSE sort_from(Tail(events), insert_stable(sorted, Head(events)))

\* variant: the events are left in append order
sort_events_none(events) == events

sort_events(events) == sort_from(events, << >>)

\* ------------------------------------------------------- track management
\* addTrack: self.tracks.append(Track())
addTrack_tracks(ts) == Append(ts, << >>)

\* variant: the track count is returned instead of the last index
addTrack_ret_count(ts) == Len(addTrack_tracks(ts))

\* addTrack: return len(self.tracks) - 1, after the append
addTrack_ret(ts) == Len(addTrack_tracks(ts)) - 1

\* _get_track: append empty tracks until track_idx exists
RECURSIVE _get_track(_, _)
_get_track(ts, track_idx) ==
    IF track_idx >= Len(ts) THEN _get_track(addTrack_tracks(ts), track_idx)
    ELSE ts

\* trk = self._get_track(idx); trk.add_event(tick, event_bytes)
add_event(ts, track_idx, tick, event_bytes) ==
    LET ext == _get_track(ts, track_idx)
    IN  [ext EXCEPT ![track_idx + 1] = Append(@, Event(tick, event_bytes))]

\* ------------------------------------------------------------- setChannel
\* variant: the key and the value are masked like the event bytes
set_program_masked(cp, channel, program) ==
    {p \in cp : p[1] # channel % 16} \cup {<<channel % 16, program % 128>>}

\* self.channel_program[channel] = program, as a set of <<channel, program>>
set_program(cp, channel, program) ==
    {p \in cp : p[1] # channel} \cup {<<channel, program>>}

\* bytes([0xC0 | (channel & 0x0F), program & 0x7F])
program_change(channel, program) == << 192 + (channel % 16), program % 128 >>

\* variant: the event goes to the track numbered like the channel
setChannel_tracks_own(ts, channel, program) ==
    add_event(ts, channel % 16, 0, program_change(channel, program))

setChannel_tracks(ts, channel, program) ==
    add_event(ts, 0, 0, program_change(channel, program))

\* ----------------------------------------------------------------- addBPM
\* the three checks inside the try block
addBPM_invalid(track, start, bpm) == track < 0 \/ start < 0 \/ bpm <= 0

\* variant: a digit of the constant is lost
bpm_tempo_typo(bpm) == 6000000 \div bpm

\* int(60000000 / bpm) for bpm > 0
bpm_tempo(bpm) == 60000000 \div bpm

\* bytes([0xFF, 0x51, 0x03]) + tempo_bytes
tempo_event(tempo) == << 255, 81, 3 >> \o to_bytes3(tempo)

addBPM_outcome(track, start, bpm) ==
    IF addBPM_invalid(track, start, bpm) THEN "rejected"
    ELSE IF to_bytes3_overflows(bpm_tempo(bpm)) THEN "OverflowError"
    ELSE "ok"

\* variant: the track is looked up (and created) before the checks run
addBPM_tracks_early(ts, track, start, bpm) ==
    IF addBPM_invalid(track, start, bpm)
    THEN IF track >= 0 THEN _get_track(ts, track) ELSE ts
    ELSE IF to_bytes3_overflows(bpm_tempo(bpm)) THEN ts
    ELSE add_event(ts, track, start, tempo_event(bpm_tempo(bpm)))

addBPM_tracks(ts, track, start, bpm) ==
    IF addBPM_invalid(track, start, bpm) THEN ts
    ELSE IF to_bytes3_overflows(bpm_tempo(bpm)) THEN ts
    ELSE add_event(ts, track, start, tempo_event(bpm_tempo(bpm)))

\* ---------------------------------------------------------------- addNote
\* the five checks inside the try block
addNote_invalid(track, channel, start, duration, velocity) ==
    \/ track < 0
    \/ channel < 0
    \/ start < 0
    \/ duration <= 0
    \/ ~(0 <= velocity /\ velocity <= 127)

\* variant: the pitch is masked to 8 bits instead of 7
note_on_wide(channel, pitch, velocity) ==
    << 144 + (channel % 16), pitch % 256, velocity % 128 >>

\* bytes([0x90 | (channel & 0x0F), pitch & 0x7F, velocity & 0x7F])
note_on(channel, pitch, velocity) ==
    << 144 + (channel % 16), pitch % 128, velocity % 128 >>

\* variant: the note-off carries a release velocity of 64
note_off_velocity(channel, pitch) == << 128 + (channel % 16), pitch % 128, 64 >>

\* bytes([0x80 | (channel & 0x0F), pitch & 0x7F, 0])
note_off(channel, pitch) == << 128 + (channel % 16), pitch % 128, 0 >>

addNote_outcome(track, channel, start, duration, pitch, velocity) ==
    IF addNote_invalid(track, channel, start, duration, velocity)
    THEN "rejected" ELSE "ok"

\* variant: the note-off is placed at tick duration, not start + duration
addNote_tracks_endtick(ts, track, channel, start, duration, pitch, velocity) ==
    IF addNote_invalid(track, channel, start, duration, velocity) THEN ts
    ELSE add_event(
            add_event(ts, track, start, note_on(channel, pitch, velocity)),
            track, duration, note_off(channel, pitch))

\* variant: the track is looked up (and created) before the checks run
addNote_tracks_early(ts, track, channel, start, duration, pitch, velocity) ==
    IF addNote_invalid(track, channel, start, duration, velocity)
    THEN IF track >= 0 THEN _get_track(ts, track) ELSE ts
    ELSE add_event(
            add_event(ts, track, start, note_on(channel, pitch, velocity)),
            track, start + duration, note_off(channel, pitch))

addNote_tracks(ts, track, channel, start, duration, pitch, velocity) ==
    IF addNote_invalid(track, channel, start, duration, velocity) THEN ts
    ELSE add_event(
            add_event(ts, track, start, note_on(channel, pitch, velocity)),
            track, start + duration, note_off(channel, pitch))

\* ------------------------------------------------------------------- save
sort_all(ts) == [i \in 1 .. Len(ts) |-> sort_events(ts[i])]

\* the delta_ticks values of the inner loop, prev_tick starting at 0
RECURSIVE delta_walk(_, _)
delta_walk(events, prev_tick) ==
    IF events = << >> THEN << >>
    ELSE << Head(events).tick - prev_tick >>
         \o delta_walk(Tail(events), Head(events).tick)

\* track_data of the inner loop, without the end-of-track event
RECURSIVE data_walk(_, _)
data_walk(events, prev_tick) ==
    IF events = << >> THEN << >>
    ELSE encode_var_len(Head(events).tick - prev_tick)
         \o Head(events).bytes
         \o data_walk(Tail(events), Head(events).tick)

end_of_track == encode_var_len(0) \o << 255, 47, 0 >>

track_data(events) == data_walk(events, 0) \o end_of_track

\* variant: the length is taken before the end-of-track event is added
track_chunk_early_len(events) ==
    << 77, 84, 114, 107 >> \o pack_I(Len(data_walk(events, 0)))
    \o track_data(events)

\* b"MTrk" + struct.pack(">I", len(track_data)) + track_data
track_chunk(events) ==
    << 77, 84, 114, 107 >> \o pack_I(Len(track_data(events)))
    \o track_data(events)

RECURSIVE track_chunks(_)
track_chunks(ts) ==
    IF ts = << >> THEN << >>
    ELSE track_chunk(Head(ts)) \o track_chunks(Tail(ts))

\* variant: format 1 as soon as there is a track
midi_format_any(num_tracks) == IF num_tracks >= 1 THEN 1 ELSE 0

\* midi_format = 1 if num_tracks > 1 else 0
midi_format(num_tracks) == IF num_tracks > 1 THEN 1 ELSE 0

\* b"MThd" + struct.pack(">I", 6) + struct.pack(">hhh", format, n, tpq)
header_chunk(num_tracks) ==
    << 77, 84, 104, 100 >> \o pack_I(6)
    \o pack_h(midi_format(num_tracks)) \o pack_h(num_tracks)
    \o pack_h(ticks_per_quarter)

\* struct.pack(">hhh", ...) raises when a field does not fit 16 signed bits
save_outcome(ts) ==
    IF pack_h_fails(Len(ts)) \/ pack_h_fails(ticks_per_quarter)
    THEN "struct.error" ELSE "ok"

\* full_data, for a track list that has been sorted
full_data(sorted) == header_chunk(Len(sorted)) \o track_chunks(sorted)

\* ------------------------------------------------- accepted-call reference
\* the calls the validator rejects, as the interface documents them
NoteRejected(a) ==
    \/ a.track < 0 \/ a.channel < 0 \/ a.start < 0
    \/ a.duration <= 0 \/ a.velocity < 0 \/ a.velocity > 127

BpmRejected(a) == a.track < 0 \/ a.start < 0 \/ a.bpm <= 0

\* ----------------------------------------------------------------- inputs
\* arguments the callers are drawn from: valid ones (two channels, ticks that
\* collide and ticks that arrive out of order, a track index that leaves a
\* gap, a 480-tick duration) and ones that break each validated field
NoteArg(t, c, s, d, p, v) ==
    [track |-> t, channel |-> c, start |-> s, duration |-> d,
     pitch |-> p, velocity |-> v]

NoteArgs ==
    { NoteArg(0, 0, 0, 480, 60, 120),
      NoteArg(0, 17, 3, 2, 200, 0),
      NoteArg(2, 0, 3, 2, 60, 127),
      NoteArg(1, 9, 5, 1, 38, 100),
      NoteArg(-1, 0, 0, 480, 60, 120),
      NoteArg(2, -1, 0, 480, 60, 120),
      NoteArg(0, 0, -1, 480, 60, 120),
      NoteArg(2, 0, 0, 0, 60, 120),
      NoteArg(0, 0, 0, -3, 60, 120),
      NoteArg(0, 0, 0, 480, 60, 128),
      NoteArg(2, 0, 0, 480, 60, -1) }

BpmArg(t, s, b) == [track |-> t, start |-> s, bpm |-> b]

BpmArgs ==
    { BpmArg(0, 0, 120), BpmArg(0, 5, 90), BpmArg(0, 5, 7), BpmArg(0, 3, 120),
      BpmArg(2, 3, 4), BpmArg(2, 0, 1), BpmArg(0, 0, 3),
      BpmArg(-1, 0, 120), BpmArg(0, -1, 120), BpmArg(2, 0, 0),
      BpmArg(0, 0, -5) }

ChannelArgs ==
    { [channel |-> 0, program |-> 0], [channel |-> 0, program |-> 5],
      [channel |-> 17, program |-> 200], [channel |-> -1, program |-> -1] }

\* ------------------------------------------------------------------- Init
\* MidiWriter.__init__: no tracks, no programs; nothing saved yet
Init ==
    /\ tracks = << >>
    /\ channel_program = {}
    /\ file = << >>
    /\ deltas = << >>
    /\ call = [op |-> "init"]
    /\ outcome = "ok"
    /\ ret = -1
    /\ appended = << >>
    /\ refTracks = << >>
    /\ refProgram = {}
    /\ ncalls = 0
    /\ nrejected = 0
    /\ acceptedCalls = << >>
    /\ vlqIn = 0
    /\ vlqOut = encode_var_len(0)

\* ---------------------------------------------------------------- actions
addTrack ==
    /\ ncalls < MaxCalls
    /\ ncalls' = ncalls + 1
    /\ tracks' = addTrack_tracks(tracks)
    /\ ret' = addTrack_ret(tracks)
    /\ appended' = addTrack_tracks(appended)
    /\ refTracks' = addTrack_tracks(refTracks)
    /\ call' = [op |-> "addTrack"]
    /\ acceptedCalls' = Append(acceptedCalls, call')
    /\ outcome' = "ok"
    /\ UNCHANGED <<channel_program, refProgram, file, deltas, nrejected,
                   vlqIn, vlqOut>>

setChannel ==
    \E a \in ChannelArgs :
        /\ ncalls < MaxCalls
        /\ ncalls' = ncalls + 1
        /\ channel_program' = set_program(channel_program, a.channel, a.program)
        /\ tracks' = setChannel_tracks(tracks, a.channel, a.program)
        /\ appended' = setChannel_tracks(appended, a.channel, a.program)
        /\ refTracks' = setChannel_tracks(refTracks, a.channel, a.program)
        /\ refProgram' = set_program(refProgram, a.channel, a.program)
        /\ call' = [op |-> "setChannel", channel |-> a.channel,
                    program |-> a.program]
        /\ acceptedCalls' = Append(acceptedCalls, call')
        /\ outcome' = "ok"
        /\ ret' = -1
        /\ UNCHANGED <<file, deltas, nrejected, vlqIn, vlqOut>>

addBPM ==
    \E a \in BpmArgs :
        /\ ncalls < MaxCalls
        /\ ncalls' = ncalls + 1
        /\ tracks' = addBPM_tracks(tracks, a.track, a.start, a.bpm)
        /\ appended' = addBPM_tracks(appended, a.track, a.start, a.bpm)
        /\ refTracks' = IF BpmRejected(a) THEN refTracks
                        ELSE addBPM_tracks(refTracks, a.track, a.start, a.bpm)
        /\ outcome' = addBPM_outcome(a.track, a.start, a.bpm)
        /\ call' = [op |-> "addBPM", track |-> a.track, start |-> a.start,
                    bpm |-> a.bpm]
        /\ nrejected' = IF BpmRejected(a) THEN nrejected + 1 ELSE nrejected
        /\ acceptedCalls' = IF BpmRejected(a) THEN acceptedCalls
                            ELSE Append(acceptedCalls, call')
        /\ ret' = -1
        /\ UNCHANGED <<channel_program, refProgram, file, deltas,
                       vlqIn, vlqOut>>

addNote ==
    \E a \in NoteArgs :
        /\ ncalls < MaxCalls
        /\ ncalls' = ncalls + 1
        /\ tracks' = addNote_tracks(tracks, a.track, a.channel, a.start,
                                    a.duration, a.pitch, a.velocity)
        /\ appended' = addNote_tracks(appended, a.track, a.channel, a.start,
                                      a.duration, a.pitch, a.velocity)
        /\ refTracks' = IF NoteRejected(a) THEN refTracks
                        ELSE addNote_tracks(refTracks, a.track, a.channel,
                                 a.start, a.duration, a.pitch, a.velocity)
        /\ outcome' = addNote_outcome(a.track, a.channel, a.start,
                                      a.duration, a.pitch, a.velocity)
        /\ call' = [op |-> "addNote", track |-> a.track,
                    channel |-> a.channel, start |-> a.start,
                    duration |-> a.duration, pitch |-> a.pitch,
                    velocity |-> a.velocity]
        /\ nrejected' = IF NoteRejected(a) THEN nrejected + 1 ELSE nrejected
        /\ acceptedCalls' = IF NoteRejected(a) THEN acceptedCalls
                            ELSE Append(acceptedCalls, call')
        /\ ret' = -1
        /\ UNCHANGED <<channel_program, refProgram, file, deltas,
                       vlqIn, vlqOut>>

\* save: sort every track in place, then build and write the file; a
\* struct.error leaves the tracks sorted and writes nothing
save ==
    /\ tracks' = sort_all(tracks)
    /\ outcome' = save_outcome(tracks)
    /\ IF save_outcome(tracks) = "ok"
       THEN /\ file' = full_data(sort_all(tracks))
            /\ deltas' = [i \in 1 .. Len(tracks) |->
                             delta_walk(sort_events(tracks[i]), 0)]
       ELSE UNCHANGED <<file, deltas>>
    /\ call' = [op |-> "save"]
    /\ ret' = -1
    /\ UNCHANGED <<channel_program, appended, refTracks, refProgram, ncalls,
                   nrejected, acceptedCalls, vlqIn, vlqOut>>

Next == addTrack \/ setChannel \/ addBPM \/ addNote \/ save

Spec == Init /\ [][Next]_vars

\* ------------------------------------------- encode_var_len on its own
\* values on both sides of every group boundary up to five groups
VlqInputs ==
    (0 .. VlqSmallMax)
    \cup { Pow(128, k) - 1 : k \in 1 .. 4 }
    \cup { Pow(128, k) : k \in 1 .. 4 }
    \cup { Pow(128, k) + 1 : k \in 1 .. 4 }
    \cup { 480, 16256, 2080768, 2097279, 268435455, 2147483647 }

EncodeVarLen ==
    \E v \in VlqInputs :
        /\ vlqIn' = v
        /\ vlqOut' = encode_var_len(v)
        /\ UNCHANGED docVars

NextVlq == EncodeVarLen

SpecVlq == Init /\ [][NextVlq]_vars

\* ================================================================= claims

\* the standard MIDI VLQ decoder: 7 bits per byte, stop at the first byte
\* whose high bit is clear; <<value, number of bytes read>>, or <<-1, n>>
\* when the bytes run out first
RECURSIVE vlq_decode(_, _, _)
vlq_decode(bytes, acc, nread) ==
    IF bytes = << >> THEN << -1, nread >>
    ELSE IF Head(bytes) >= 128
         THEN vlq_decode(Tail(bytes), acc * 128 + (Head(bytes) - 128),
                         nread + 1)
         ELSE << acc * 128 + Head(bytes), nread + 1 >>

\* C1: for 0 <= v < 2^28 the standard decoder reads v back from all of
\* encode_var_len(v), and the encoding is one byte long exactly when v < 0x80
VlqRoundTrip ==
    (0 <= vlqIn /\ vlqIn < 268435456) =>
        /\ vlq_decode(vlqOut, 0, 0) = << vlqIn, Len(vlqOut) >>
        /\ (Len(vlqOut) = 1) <=> (vlqIn < 128)

VlqRoundTripWitness ==
    /\ vlqIn = 268435455
    /\ vlqOut = << 255, 255, 255, 127 >>

\* number of 7-bit groups of v without a leading all-zero group (v < 2^31)
NumGroups(v) ==
    IF v < 128 THEN 1 ELSE IF v < 16384 THEN 2 ELSE IF v < 2097152 THEN 3
    ELSE IF v < 268435456 THEN 4 ELSE 5

\* the i-th of n groups of v, most significant first
Group(v, n, i) == (v \div Pow(128, n - i)) % 128

\* C2: encode_var_len(v) is v's 7-bit groups, most significant first, no
\* leading zero group, bit 0x80 set on every byte but the last and clear on
\* the last; v = 0 gives the single byte 0x00
VlqGroups ==
    vlqIn >= 0 =>
        /\ Len(vlqOut) = NumGroups(vlqIn)
        /\ \A i \in 1 .. Len(vlqOut) :
              vlqOut[i] = Group(vlqIn, Len(vlqOut), i)
                          + (IF i < Len(vlqOut) THEN 128 ELSE 0)
        /\ (vlqIn = 0 => vlqOut = << 0 >>)

VlqGroupsWitness ==
    /\ vlqIn = 16384
    /\ vlqOut = << 129, 128, 0 >>

\* the events of a list that carry tick t, in list order
AtTick(events, t) == SelectSeq(events, LAMBDA ev : ev.tick = t)

Ascending(events) ==
    \A i \in 1 .. Len(events) - 1 : events[i].tick <= events[i + 1].tick

Ticks(events) == { events[i].tick : i \in 1 .. Len(events) }

\* C3: after save every track is in ascending tick order, and the events
\* that share a tick are in the order in which they were appended
StableOrdering ==
    call.op = "save" =>
        /\ Len(tracks) = Len(appended)
        /\ \A i \in 1 .. Len(tracks) :
              /\ Len(tracks[i]) = Len(appended[i])
              /\ Ascending(tracks[i])
              /\ \A t \in Ticks(appended[i]) :
                    AtTick(tracks[i], t) = AtTick(appended[i], t)

\* appended (5,A), (5,B), (3,C); rendered C, A, B
StableOrderingWitness ==
    /\ call.op = "save"
    /\ Len(appended) >= 1
    /\ Len(appended[1]) = 3
    /\ appended[1][1].tick = 5
    /\ appended[1][2].tick = 5
    /\ appended[1][3].tick = 3
    /\ appended[1][1] # appended[1][2]
    /\ tracks[1] = << appended[1][3], appended[1][1], appended[1][2] >>

\* C4: every delta_ticks value save computes is >= 0
DeltasNonNegative ==
    \A i \in 1 .. Len(deltas) :
        \A j \in 1 .. Len(deltas[i]) : deltas[i][j] >= 0

\* a save of a track whose events were appended out of tick order
DeltasNonNegativeWitness ==
    /\ call.op = "save"
    /\ \E i \in 1 .. Len(deltas) :
          /\ ~Ascending(appended[i])
          /\ Len(deltas[i]) = Len(appended[i])
          /\ \E j \in 1 .. Len(deltas[i]) : deltas[i][j] > 0

\* C5: an addNote or addBPM call the validator rejects returns without
\* raising and leaves the tracks and channel_program as they were
ValidationSkip ==
    [][ ( \/ (call'.op = "addNote" /\ NoteRejected(call'))
          \/ (call'.op = "addBPM" /\ BpmRejected(call')) )
        => /\ outcome' = "rejected"
           /\ tracks' = tracks
           /\ channel_program' = channel_program ]_vars

\* a rejected addNote (duration 0) naming a track the document does not have
ValidationSkipWitness ==
    /\ call.op = "addNote"
    /\ call.duration = 0
    /\ outcome = "rejected"
    /\ call.track >= Len(tracks)
    /\ Len(tracks) >= 1

\* the most recent call is an addBPM the validator accepts
AcceptedBpm(c) == c.op = "addBPM" /\ ~BpmRejected(c)

\* the most recent call is an addNote the validator accepts
AcceptedNote(c) == c.op = "addNote" /\ ~NoteRejected(c)

\* events of track index k (0-based) in ts, empty when ts has no such track
EventsOf(ts, k) == IF k + 1 <= Len(ts) THEN ts[k + 1] ELSE << >>

\* C6: every addBPM the validator accepts completes without an error and
\* appends one event at tick start to the given track: FF 51 03 and the
\* three big-endian bytes of 60000000 divided by bpm, truncated
TempoAppended ==
    [][ AcceptedBpm(call') =>
          /\ outcome' = "ok"
          /\ Len(tracks') >= call'.track + 1
          /\ tracks'[call'.track + 1] =
                Append(EventsOf(tracks, call'.track),
                       [tick |-> call'.start,
                        bytes |-> << 255, 81, 3,
                                     (60000000 \div call'.bpm) \div 65536,
                                     ((60000000 \div call'.bpm) \div 256) % 256,
                                     (60000000 \div call'.bpm) % 256 >>]) ]_vars

\* C7: the bytes save renders from the document equal the bytes rendered
\* from the document built by the accepted calls alone, and so does the
\* state later calls start from
SkipAndContinue ==
    /\ full_data(sort_all(tracks)) = full_data(sort_all(refTracks))
    /\ Len(tracks) = Len(refTracks)
    /\ channel_program = refProgram
    /\ (call.op = "save" /\ outcome = "ok") =>
          file = full_data(sort_all(refTracks))

\* a file saved after a rejected call and two accepted ones
SkipAndContinueWitness ==
    /\ call.op = "save"
    /\ outcome = "ok"
    /\ nrejected = 1
    /\ ncalls = 3
    /\ Len(refTracks) = 3
    /\ \E i \in 1 .. Len(refTracks) : Len(refTracks[i]) >= 3
    /\ file = full_data(sort_all(refTracks))

IsPrefix(p, q) == Len(p) <= Len(q) /\ SubSeq(q, 1, Len(p)) = p

\* C8: an accepted addNote or addBPM on track k of a document of n tracks
\* leaves max(n, k+1) tracks, the other existing tracks as they were, the
\* new tracks below k empty, and the new events on track k only
AutoExtension ==
    [][ (AcceptedNote(call') \/ AcceptedBpm(call')) =>
          /\ Len(tracks') = (IF Len(tracks) > call'.track + 1
                             THEN Len(tracks) ELSE call'.track + 1)
          /\ \A i \in 1 .. Len(tracks) :
                i # call'.track + 1 => tracks'[i] = tracks[i]
          /\ \A i \in (Len(tracks) + 1) .. call'.track :
                tracks'[i] = << >>
          /\ IsPrefix(EventsOf(tracks, call'.track),
                      tracks'[call'.track + 1]) ]_vars

\* C9: addTrack adds one empty track at the end, returns its index (the
\* previous track count) and changes no other track nor channel_program
AddTrackFrame ==
    [][ call'.op = "addTrack" =>
          /\ Len(tracks') = Len(tracks) + 1
          /\ tracks'[Len(tracks')] = << >>
          /\ \A i \in 1 .. Len(tracks) : tracks'[i] = tracks[i]
          /\ ret' = Len(tracks)
          /\ channel_program' = channel_program ]_vars

\* addTrack on a document that already holds a track with events
AddTrackFrameWitness ==
    /\ call.op = "addTrack"
    /\ Len(tracks) >= 2
    /\ tracks[1] # << >>
    /\ tracks[Len(tracks)] = << >>
    /\ ret = Len(tracks) - 1

\* the big-endian 16-bit field of f that starts at byte i
Field16(f, i) == f[i] * 256 + f[i + 1]

\* the header of the saved file, with the format field expected to be fmt
HeaderIs(fmt) ==
    /\ Len(file) >= 14
    /\ SubSeq(file, 1, 4) = << 77, 84, 104, 100 >>
    /\ SubSeq(file, 5, 8) = << 0, 0, 0, 6 >>
    /\ Field16(file, 9) = fmt
    /\ Field16(file, 11) = Len(tracks)
    /\ Field16(file, 13) = 480

EndToEnd ==
    ( /\ call.op = "save"
      /\ outcome = "ok"
      /\ ncalls = 2
      /\ acceptedCalls =
            << [op |-> "addBPM", track |-> 0, start |-> 0, bpm |-> 120],
               [op |-> "addNote", track |-> 0, channel |-> 0, start |-> 0,
                duration |-> 480, pitch |-> 60, velocity |-> 120] >> )
    => file = << 77, 84, 104, 100, 0, 0, 0, 6, 0, 0, 0, 1, 1, 224,
                 77, 84, 114, 107, 0, 0, 0, 20,
                 0, 255, 81, 3, 7, 161, 32,
                 0, 144, 60, 120,
                 131, 96, 128, 60, 0,
                 0, 255, 47, 0 >>

\* the saved file of exactly that document
EndToEndWitness ==
    /\ call.op = "save"
    /\ outcome = "ok"
    /\ ncalls = 2
    /\ Len(acceptedCalls) = 2
    /\ acceptedCalls[1] = [op |-> "addBPM", track |-> 0, start |-> 0,
                           bpm |-> 120]
    /\ acceptedCalls[2].op = "addNote"
    /\ acceptedCalls[2].duration = 480
    /\ Len(file) = 42

\* how many times e occurs in the sequence s
Count(e, s) == Cardinality({ i \in 1 .. Len(s) : s[i] = e })

\* the two sequences hold the same elements the same number of times
SameBag(s, t) ==
    /\ Len(s) = Len(t)
    /\ \A i \in 1 .. Len(s) : Count(s[i], s) = Count(s[i], t)

\* C12: save leaves the track count, channel_program and every track's
\* multiset of (tick, event) pairs as they were, and a save of the document
\* it leaves behind writes the same bytes again
RenderIdempotent ==
    [][ call'.op = "save" =>
          /\ Len(tracks') = Len(tracks)
          /\ channel_program' = channel_program
          /\ \A i \in 1 .. Len(tracks) : SameBag(tracks'[i], tracks[i])
          /\ save_outcome(tracks') = outcome'
          /\ outcome' = "ok" => full_data(sort_all(tracks')) = file' ]_vars

\* a saved document with a track that was appended out of tick order and
\* holds two different events on one tick
RenderIdempotentWitness ==
    /\ call.op = "save"
    /\ outcome = "ok"
    /\ \E i \in 1 .. Len(tracks) :
          /\ ~Ascending(appended[i])
          /\ tracks[i] # appended[i]
          /\ \E j \in 1 .. Len(tracks[i]) - 1 :
                /\ tracks[i][j].tick = tracks[i][j + 1].tick
                /\ tracks[i][j] # tracks[i][j + 1]
    /\ file = full_data(sort_all(tracks))

\* C13: setChannel records channel -> program, leaves the other channels'
\* entries alone, and appends one program-change event at tick 0 to track 0
\* (created when the document has no track); no other track changes
SetChannelFrame ==
    [][ call'.op = "setChannel" =>
          /\ << call'.channel, call'.program >> \in channel_program'
          /\ \A q \in channel_program' :
                q[1] = call'.channel => q[2] = call'.program
          /\ { q \in channel_program' : q[1] # call'.channel }
                = { q \in channel_program : q[1] # call'.channel }
          /\ Len(tracks') = (IF Len(tracks) = 0 THEN 1 ELSE Len(tracks))
          /\ tracks'[1] =
                Append(EventsOf(tracks, 0),
                       [tick |-> 0,
                        bytes |-> << 192 + (call'.channel % 16),
                                     call'.program % 128 >>])
          /\ \A i \in 2 .. Len(tracks) : tracks'[i] = tracks[i] ]_vars

\* setChannel on a document whose notes for that channel sit on track 2
SetChannelFrameWitness ==
    /\ call.op = "setChannel"
    /\ call.channel = 0
    /\ Len(tracks) = 3
    /\ tracks[1] = << [tick |-> 0, bytes |-> << 192, call.program >>] >>
    /\ tracks[2] = << >>
    /\ Len(tracks[3]) = 2
    /\ tracks[3][1].bytes[1] = 144

\* C14: an accepted addNote appends two events to its track and nothing
\* anywhere else: the note-on (0x90 | channel, pitch, velocity) at tick
\* start, then the note-off (0x80 | channel, pitch, 0) at start + duration;
\* channel_program does not change
AddNoteTwoEvents ==
    [][ AcceptedNote(call') =>
          /\ outcome' = "ok"
          /\ channel_program' = channel_program
          /\ Len(tracks') >= call'.track + 1
          /\ Len(tracks'[call'.track + 1])
                = Len(EventsOf(tracks, call'.track)) + 2
          /\ tracks'[call'.track + 1] =
                EventsOf(tracks, call'.track)
                \o << [tick |-> call'.start,
                       bytes |-> << 144 + (call'.channel % 16),
                                    call'.pitch % 128, call'.velocity >>],
                      [tick |-> call'.start + call'.duration,
                       bytes |-> << 128 + (call'.channel % 16),
                                    call'.pitch % 128, 0 >>] >>
          /\ \A i \in 1 .. Len(tracks') :
                i # call'.track + 1 => tracks'[i] = EventsOf(tracks, i - 1)
      ]_vars

\* an accepted addNote on a track that already held events, next to
\* another track with events
AddNoteTwoEventsWitness ==
    /\ call.op = "addNote"
    /\ outcome = "ok"
    /\ Len(tracks) >= call.track + 1
    /\ Len(tracks[call.track + 1]) >= 3
    /\ \E i \in 1 .. Len(tracks) : i # call.track + 1 /\ tracks[i] # << >>

\* C15 as stated: every key of channel_program is in 0..15 and every value
\* in 0..127
ChannelProgramInRange ==
    \A q \in channel_program : q[1] \in 0 .. 15 /\ q[2] \in 0 .. 127

\* the i-th accepted call is the last setChannel call for its channel
LastSetChannel(i) ==
    /\ acceptedCalls[i].op = "setChannel"
    /\ \A j \in (i + 1) .. Len(acceptedCalls) :
          acceptedCalls[j].op = "setChannel"
            => acceptedCalls[j].channel # acceptedCalls[i].channel

\* C15: channel_program holds, for every channel setChannel was called
\* with, the program of the last such call, both exactly as passed
ChannelProgramAsPassed ==
    /\ \A q \in channel_program :
          \E i \in 1 .. Len(acceptedCalls) :
              /\ LastSetChannel(i)
              /\ q = << acceptedCalls[i].channel, acceptedCalls[i].program >>
    /\ \A i \in 1 .. Len(acceptedCalls) :
          LastSetChannel(i) =>
              << acceptedCalls[i].channel, acceptedCalls[i].program >>
                  \in channel_program

\* channel 0 set twice and channel 17 set to program 200
ChannelProgramAsPassedWitness ==
    /\ channel_program = { << 0, 0 >>, << 17, 200 >> }
    /\ Len(acceptedCalls) = 3
    /\ acceptedCalls[1] = [op |-> "setChannel", channel |-> 0, program |-> 5]

\* ---- a reader of the saved file, for the layout claims
\* the big-endian 32-bit field of f that starts at byte i
Field32(f, i) ==
    ((f[i] * 256 + f[i + 1]) * 256 + f[i + 2]) * 256 + f[i + 3]

\* the payloads of the MTrk chunks that fill bytes from..Len(f) of f, in
\* order; << -1 >> is appended where the bytes are not a chunk
RECURSIVE ReadChunks(_, _)
ReadChunks(f, from) ==
    IF from > Len(f) THEN << >>
    ELSE IF from + 7 > Len(f) THEN << << -1 >> >>
    ELSE IF SubSeq(f, from, from + 3) # << 77, 84, 114, 107 >>
         THEN << << -1 >> >>
    ELSE IF from + 7 + Field32(f, from + 4) > Len(f) THEN << << -1 >> >>
    ELSE << SubSeq(f, from + 8, from + 7 + Field32(f, from + 4)) >>
         \o ReadChunks(f, from + 8 + Field32(f, from + 4))

\* length in bytes of the event that starts at byte i of payload p: a meta
\* event FF type len data, a two-byte program change, a three-byte note
\* event; 0 when byte i starts none of these
EventLen(p, i) ==
    IF i > Len(p) THEN 0
    ELSE IF p[i] = 255
         THEN (IF i + 2 <= Len(p) THEN 3 + p[i + 2] ELSE 0)
    ELSE IF p[i] \in 192 .. 207 THEN 2
    ELSE IF p[i] \in 128 .. 159 THEN 3
    ELSE 0

\* the (delta, event bytes) pairs that fill bytes from..Len(p) of payload p,
\* as events with absolute ticks, prev being the tick reached so far; a
\* record with tick -1 is appended where the bytes are not such a pair
RECURSIVE ReadEvents(_, _, _)
ReadEvents(p, from, prev) ==
    IF from > Len(p) THEN << >>
    ELSE LET d == vlq_decode(SubSeq(p, from, Len(p)), 0, 0)
             at == from + d[2]
             n == EventLen(p, at)
         IN  IF d[1] < 0 \/ n = 0 \/ at + n - 1 > Len(p)
             THEN << [tick |-> -1, bytes |-> << >>] >>
             ELSE << [tick |-> prev + d[1],
                      bytes |-> SubSeq(p, at, at + n - 1)] >>
                  \o ReadEvents(p, at + n, prev + d[1])

EndOfTrackBytes == << 255, 47, 0 >>

\* payload p reads as the events of the track followed by one end-of-track
\* event at delta 0, and its last four bytes are 00 FF 2F 00
PayloadIsTrack(p, events) ==
    LET r == ReadEvents(p, 1, 0)
    IN  /\ Len(r) = Len(events) + 1
        /\ SubSeq(r, 1, Len(events)) = events
        /\ r[Len(r)].bytes = EndOfTrackBytes
        /\ r[Len(r)].tick = (IF events = << >> THEN 0
                             ELSE events[Len(events)].tick)
        /\ Count(EndOfTrackBytes, [i \in 1 .. Len(r) |-> r[i].bytes]) = 1
        /\ Len(p) >= 4
        /\ SubSeq(p, Len(p) - 3, Len(p)) = << 0, 255, 47, 0 >>

\* C16: after the 14-byte header the saved file is one MTrk chunk per
\* track, in index order, each with the exact payload length, each payload
\* the track's (delta, event) pairs and then 00 FF 2F 00, the only
\* end-of-track event of the chunk
ChunkLayout ==
    (call.op = "save" /\ outcome = "ok") =>
        LET chunks == ReadChunks(file, 15)
        IN  /\ Len(chunks) = Len(tracks)
            /\ \A i \in 1 .. Len(chunks) :
                  /\ chunks[i] # << -1 >>
                  /\ PayloadIsTrack(chunks[i], tracks[i])

\* a saved file of three tracks: one empty, one with a delta of two bytes
ChunkLayoutWitness ==
    /\ call.op = "save"
    /\ outcome = "ok"
    /\ Len(tracks) = 3
    /\ tracks[2] = << >>
    /\ Len(tracks[1]) >= 2
    /\ tracks[1][Len(tracks[1])].tick = 480
    /\ Len(tracks[3]) >= 2
    /\ Len(ReadChunks(file, 15)) = 3

\* every channel event held by the tracks has a status byte in 0x80..0xCF
\* and data bytes in 0..127 (meta events start with 0xFF)
ChannelBytesInRange ==
    \A i \in 1 .. Len(tracks) :
        \A j \in 1 .. Len(tracks[i]) :
            LET b == tracks[i][j].bytes
            IN  b[1] # 255 =>
                  /\ b[1] \in 128 .. 207
                  /\ \A k \in 2 .. Len(b) : b[k] \in 0 .. 127

\* the last n-th event of track index k (0-based), n = 0 for the last one
LastEvent(ts, k, n) == ts[k + 1][Len(ts[k + 1]) - n].bytes

\* C17: addNote is rejected for the five validated fields only, never for
\* its pitch or a channel above 15; setChannel is never rejected; the
\* emitted status bytes are 0x9n, 0x8n, 0xCn with n = channel mod 16, the
\* pitch, velocity and program bytes are the values mod 128, and every
\* channel event's status is in 0x80..0xCF and its data bytes in 0..127
SilentTruncation ==
    [][ /\ call'.op = "addNote" =>
              ((outcome' = "rejected") <=> NoteRejected(call'))
        /\ AcceptedNote(call') =>
              /\ LastEvent(tracks', call'.track, 1)[1] \div 16 = 9
              /\ LastEvent(tracks', call'.track, 1)[1] % 16
                    = call'.channel % 16
              /\ LastEvent(tracks', call'.track, 1)[2] = call'.pitch % 128
              /\ LastEvent(tracks', call'.track, 1)[3] = call'.velocity % 128
              /\ LastEvent(tracks', call'.track, 0)[1] \div 16 = 8
              /\ LastEvent(tracks', call'.track, 0)[1] % 16
                    = call'.channel % 16
              /\ LastEvent(tracks', call'.track, 0)[2] = call'.pitch % 128
        /\ call'.op = "setChannel" =>
              /\ outcome' = "ok"
              /\ LastEvent(tracks', 0, 0)[1] \div 16 = 12
              /\ LastEvent(tracks', 0, 0)[1] % 16 = call'.channel % 16
              /\ LastEvent(tracks', 0, 0)[2] = call'.program % 128
        /\ ChannelBytesInRange' ]_vars

\* an accepted note on channel 17 with pitch 200, next to a program change
\* for channel 17 and program 200
SilentTruncationWitness ==
    /\ call.op = "addNote"
    /\ call.channel = 17
    /\ call.pitch = 200
    /\ outcome = "ok"
    /\ tracks[1] = << [tick |-> 0, bytes |-> << 193, 72 >>],
                      [tick |-> 3, bytes |-> << 145, 72, 0 >>],
                      [tick |-> 5, bytes |-> << 129, 72, 0 >>] >>

\* the events with their position in the list attached
Tagged(events) ==
    [i \in 1 .. Len(events) |->
        [tick |-> events[i].tick, bytes |-> events[i].bytes, pos |-> i]]

\* the place in the list r of the event that was appended as number p
PlaceOf(r, p) == CHOOSE j \in 1 .. Len(r) : r[j].pos = p

\* C18: in the order save gives a track, the note-on of every accepted
\* addNote call comes before the note-off of the same call (the event
\* appended right after it), whatever else the track holds
NoteOnBeforeOff ==
    call.op = "save" =>
        \A i \in 1 .. Len(appended) :
            LET r == sort_events(Tagged(appended[i]))
            IN  /\ [j \in 1 .. Len(r) |-> Event(r[j].tick, r[j].bytes)]
                      = tracks[i]
                /\ \A p \in 1 .. Len(appended[i]) - 1 :
                      appended[i][p].bytes[1] \div 16 = 9 =>
                          PlaceOf(r, p) < PlaceOf(r, p + 1)

\* a saved track in which other events sit between a call's note-on and
\* its note-off, some of them appended before the call, some after
NoteOnBeforeOffWitness ==
    /\ call.op = "save"
    /\ \E i \in 1 .. Len(appended) :
          /\ Len(appended[i]) >= 4
          /\ \E p \in 2 .. Len(appended[i]) - 2 :
                LET r == sort_events(Tagged(appended[i]))
                IN  /\ appended[i][p].bytes[1] \div 16 = 9
                    /\ PlaceOf(r, p + 1) > PlaceOf(r, p) + 1
                    /\ \E q \in 1 .. p - 1 :
                          /\ PlaceOf(r, q) > PlaceOf(r, p)
                          /\ PlaceOf(r, q) < PlaceOf(r, p + 1)
                    /\ \E q \in p + 2 .. Len(appended[i]) :
                          /\ PlaceOf(r, q) > PlaceOf(r, p)
                          /\ PlaceOf(r, q) < PlaceOf(r, p + 1)

====
